---- MODULE Spec2Model ----
(***************************************************************************)
(* The level staging pipeline of CCCTemplate: archive discovery,           *)
(* extraction, document text extraction, prompt synthesis, file            *)
(* classification, solution invocation and cleanup, as implemented by      *)
(* archive/ccc_core.py (CCCCore), archive/ccc_runner.py (CCCRunner),       *)
(* archive/run_level.py, archive/general/process_level.py, ccc_simple.py   *)
(* (CCCSimple), the top-level run_level.py and                             *)
(* archive/general/process_level_original.py.                              *)
(*                                                                         *)
(* A file name is a sequence of tokens whose concatenation is the name:    *)
(* <<"level", "3", "_", "1", ".in">> is level3_1.in.  A glob pattern is a  *)
(* sequence of tokens in which "*" matches any run of tokens.              *)
(***************************************************************************)
EXTENDS Integers, Sequences, FiniteSets, TLC

VARIABLES
    prog,           \* entry point: "runner", "runlevel", "process", "simple",
                    \* "toprl", "original"
    mode,           \* mode flag of the entry point
    arg,            \* sys.argv[1], the level argument as typed
    level,          \* level_number, read once the argument has been parsed
    pc,             \* position of the single thread of control
    result,         \* value handed to sys.exit (NoResult while running)
    PDF_AVAILABLE,  \* module-level flag set by "import pdfplumber"
    downloads,      \* names of the files in ~/Downloads
    cwd,            \* names of the files in the working directory
    levelsDir,      \* names of the files in levels/
    infos,          \* entries under infos/ : [dir, name]
    Inputs,         \* names of the files in Inputs/
    Outputs,        \* names of the files in Outputs/
    prompts,        \* prompt files written: [dir, name, level, body]
    archive,        \* content of level<N>.zip: [entries, corrupt, partial]
    zipPath,        \* last return value of find_zip_file / find_zip
    pdfPath,        \* last return value of find_pdf_file / find_pdf
    pdfDoc,         \* the document pdfplumber.open was last called on
    pdfText,        \* last return value of extract_pdf_text
    counts,         \* last return value of CCCCore.organize_files
    exitCode,       \* return code of the last child solution process
    pre,            \* snapshot [infos, Inputs, Outputs] taken when a stage starts
    log             \* how often each stage ran in this invocation

vars == <<prog, mode, arg, level, pc, result, PDF_AVAILABLE, downloads, cwd,
          levelsDir, infos, Inputs, Outputs, prompts, archive, zipPath,
          pdfPath, pdfDoc, pdfText, counts, exitCode, pre, log>>

(***************************************************************************)
(* Bounds of the model.                                                    *)
(***************************************************************************)
MaxInputs == 2      \* input files level<N>_1.in .. level<N>_<MaxInputs>.in
MaxPages == 2       \* pages of a document

Levels == {3, 7}
ExitCodes == {0, 1, 7}

(***************************************************************************)
(* File names.                                                             *)
(***************************************************************************)
ZipName(n) == <<"level", ToString(n), ".zip">>
ScriptName(n) == <<"level", ToString(n), ".py">>
PromptName(n) == <<"level", ToString(n), "_prompt.txt">>
InFile(n, i) == <<"level", ToString(n), "_", ToString(i), ".in">>
ExampleOutFile(n, i) == <<"level", ToString(n), "_", ToString(i), "_", "example", ".out">>
PlainOutFile(n, i) == <<"level", ToString(n), "_", ToString(i), ".out">>
ReadmeFile == <<"README", ".txt">>
ExampleInFile == <<"example", ".in">>
BackupFile == <<"notes", ".in", ".bak">>

\* The ordered candidates of find_pdf_file and of find_pdf.
CorePdfPatterns(n) ==
    << <<"Level ", ToString(n), ".pdf">>,
       <<"level", ToString(n), ".pdf">>,
       <<"Level", ToString(n), ".pdf">>,
       <<"level ", ToString(n), ".pdf">> >>

SimplePdfPatterns(n) ==
    << <<"Level ", ToString(n), ".pdf">>,
       <<"level", ToString(n), ".pdf">>,
       <<"Level", ToString(n), ".pdf">> >>

TaskPdf == <<"task", ".pdf">>

Top == "."
Sub == "sub"
Entry(d, n) == [dir |-> d, name |-> n]

(***************************************************************************)
(* Path.glob on one directory level.                                       *)
(***************************************************************************)
RECURSIVE GlobMatch(_, _)
GlobMatch(pat, name) ==
    IF pat = <<>> THEN name = <<>>
    ELSE IF Head(pat) = "*"
         THEN \/ GlobMatch(Tail(pat), name)
              \/ (name # <<>> /\ GlobMatch(pat, Tail(name)))
         ELSE /\ name # <<>>
              /\ Head(name) = Head(pat)
              /\ GlobMatch(Tail(pat), Tail(name))

InPattern == <<"*", ".in">>
ExampleOutPattern == <<"*", "example", "*", ".out">>
OutPattern == <<"*", ".out">>
PdfPattern == <<"*", ".pdf">>

\* The entries directly in the directory whose names match the pattern.
Glob(dirEntries, pat) ==
    {e \in dirEntries : e.dir = Top /\ GlobMatch(pat, e.name)}

NamesOf(entries) == {e.name : e \in entries}

(***************************************************************************)
(* organize_files.                                                         *)
(***************************************************************************)
\* Faulty variant: the input files are copied, the originals stay in infos/.
CoreOrganizeCopies(st) ==
    LET in_files == Glob(st.infos, InPattern)
        example_out_files == Glob(st.infos, ExampleOutPattern)
    IN  [infos   |-> st.infos \ example_out_files,
         Inputs  |-> st.Inputs \cup NamesOf(in_files),
         Outputs |-> st.Outputs \cup NamesOf(example_out_files),
         counts  |-> <<Cardinality(in_files), Cardinality(example_out_files)>>]

\* Faulty variant: the returned pair is swapped.
CoreOrganizeSwapped(st) ==
    LET in_files == Glob(st.infos, InPattern)
        infos1 == st.infos \ in_files
        example_out_files == Glob(infos1, ExampleOutPattern)
    IN  [infos   |-> infos1 \ example_out_files,
         Inputs  |-> st.Inputs \cup NamesOf(in_files),
         Outputs |-> st.Outputs \cup NamesOf(example_out_files),
         counts  |-> <<Cardinality(example_out_files), Cardinality(in_files)>>]

\* Faulty variant: every *.out file is taken for an example output.
CoreOrganizeGreedy(st) ==
    LET in_files == Glob(st.infos, InPattern)
        infos1 == st.infos \ in_files
        example_out_files == Glob(infos1, OutPattern)
    IN  [infos   |-> infos1 \ example_out_files,
         Inputs  |-> st.Inputs \cup NamesOf(in_files),
         Outputs |-> st.Outputs \cup NamesOf(example_out_files),
         counts  |-> <<Cardinality(in_files), Cardinality(example_out_files)>>]

CoreOrganize(st) ==
    LET in_files == Glob(st.infos, InPattern)
        infos1 == st.infos \ in_files
        example_out_files == Glob(infos1, ExampleOutPattern)
    IN  [infos   |-> infos1 \ example_out_files,
         Inputs  |-> st.Inputs \cup NamesOf(in_files),
         Outputs |-> st.Outputs \cup NamesOf(example_out_files),
         counts  |-> <<Cardinality(in_files), Cardinality(example_out_files)>>]

SimpleOrganize(st) ==
    LET in_files == Glob(st.infos, InPattern)
        infos1 == st.infos \ in_files
        out_files == Glob(infos1, OutPattern)
    IN  [infos   |-> infos1 \ out_files,
         Inputs  |-> st.Inputs \cup NamesOf(in_files),
         Outputs |-> st.Outputs \cup NamesOf(out_files),
         counts  |-> st.counts]

(***************************************************************************)
(* find_zip_file / find_zip.                                               *)
(***************************************************************************)
Downloads == "Downloads"
Cwd == "."
FoundPath(d, n) == [kind |-> "path", dir |-> d, name |-> n]
NonePath == [kind |-> "None", dir |-> "", name |-> <<>>]
FileNotFound == [kind |-> "FileNotFoundError", dir |-> "", name |-> <<>>]

\* Faulty variant: the working directory is searched before ~/Downloads.
CoreFindZipCwdFirst(dl, wd, n) ==
    IF ZipName(n) \in wd THEN FoundPath(Cwd, ZipName(n))
    ELSE IF ZipName(n) \in dl THEN FoundPath(Downloads, ZipName(n))
    ELSE NonePath

\* Faulty variant: the path in ~/Downloads is returned without the exists() test.
CoreFindZipBlind(dl, wd, n) == FoundPath(Downloads, ZipName(n))

CoreFindZip(dl, wd, n) ==
    IF ZipName(n) \in dl THEN FoundPath(Downloads, ZipName(n))
    ELSE IF ZipName(n) \in wd THEN FoundPath(Cwd, ZipName(n))
    ELSE NonePath

SimpleFindZip(dl, wd, n) ==
    IF ZipName(n) \in dl THEN FoundPath(Downloads, ZipName(n))
    ELSE IF ZipName(n) \in wd THEN FoundPath(Cwd, ZipName(n))
    ELSE FileNotFound

\* process_level_original.py builds the name from the argument as typed.
ArgZipName(a) == <<"level", a, ".zip">>

OriginalFindZip(dl, wd, a) ==
    IF ArgZipName(a) \in dl THEN FoundPath(Downloads, ArgZipName(a))
    ELSE IF ArgZipName(a) \in wd THEN FoundPath(Cwd, ArgZipName(a))
    ELSE NonePath

(***************************************************************************)
(* find_level_script, clear_folder, cleanup_infos, extractall.             *)
(***************************************************************************)
LevelsFolder == "levels"

CoreFindLevelScript(wd, lv, n) ==
    IF ScriptName(n) \in wd THEN FoundPath(Cwd, ScriptName(n))
    ELSE IF ScriptName(n) \in lv THEN FoundPath(LevelsFolder, ScriptName(n))
    ELSE NonePath

\* CCCSimple.run_solution and the top-level run_level.py look in the
\* working directory only.
CwdFindLevelScript(wd, n) ==
    IF ScriptName(n) \in wd THEN FoundPath(Cwd, ScriptName(n)) ELSE NonePath

\* Every entry of Inputs/ and Outputs/ is a regular file: all are unlinked.
ClearFolder(folder) == {f \in folder : FALSE}

\* glob("*") of infos/ and unlink of the regular files: what lies in a
\* subfolder stays.
CleanupInfos(entries) == {e \in entries : e.dir # Top}

\* Faulty variant: the error of a corrupt archive is swallowed and success reported.
ExtractArchiveSwallows(entries, a) ==
    IF a.corrupt
    THEN [ok |-> TRUE, infos |-> entries \cup a.partial]
    ELSE [ok |-> TRUE, infos |-> entries \cup a.entries]

\* zipfile.ZipFile(...).extractall(infos): every entry is written under
\* infos/, an existing file of the same path is overwritten.  A corrupt
\* archive raises; the members read before the error stay on disk.
ExtractArchive(entries, a) ==
    IF a.corrupt
    THEN [ok |-> FALSE, infos |-> entries \cup a.partial]
    ELSE [ok |-> TRUE, infos |-> entries \cup a.entries]

(***************************************************************************)
(* Documents: find_pdf_file / find_pdf, extract_pdf_text, create_ai_prompt.*)
(***************************************************************************)
PageTexts == {"", "A"}

Docs ==
    {[readable |-> TRUE, pages |-> p] :
        p \in UNION {[1..k -> PageTexts] : k \in 0..MaxPages}}
    \cup {[readable |-> FALSE, pages |-> <<>>]}

NoDoc == [readable |-> FALSE, pages |-> <<>>]

Min(S) == CHOOSE x \in S : \A y \in S : x <= y

InfosFolder == "infos"

\* The values find_pdf_file can return: one, unless the any-PDF fallback
\* picks the first of several files in directory order.
FindPdf(pats, dl, entries) ==
    LET dlHits == {i \in 1..Len(pats) : pats[i] \in dl}
        inHits == {i \in 1..Len(pats) : Entry(Top, pats[i]) \in entries}
        anyPdf == Glob(entries, PdfPattern)
    IN  IF dlHits # {} THEN {FoundPath(Downloads, pats[Min(dlHits)])}
        ELSE IF inHits # {} THEN {FoundPath(InfosFolder, pats[Min(inHits)])}
        ELSE IF anyPdf # {} THEN {FoundPath(InfosFolder, e.name) : e \in anyPdf}
        ELSE {NonePath}

\* Faulty variant: any *.pdf of infos/ is taken before the named candidates
\* of infos/ are tried.
CoreFindPdfAnyFirst(dl, entries, n) ==
    LET pats == CorePdfPatterns(n)
        dlHits == {i \in 1..Len(pats) : pats[i] \in dl}
        anyPdf == Glob(entries, PdfPattern)
    IN  IF dlHits # {} THEN {FoundPath(Downloads, pats[Min(dlHits)])}
        ELSE IF anyPdf # {} THEN {FoundPath(InfosFolder, e.name) : e \in anyPdf}
        ELSE {NonePath}

CoreFindPdf(dl, entries, n) == FindPdf(CorePdfPatterns(n), dl, entries)

SimpleFindPdf(dl, entries, n) == FindPdf(SimplePdfPatterns(n), dl, entries)

\* Optional[str]: None, or a string given as its sequence of page blocks.
NoneText == [none |-> TRUE, raised |-> FALSE, blocks |-> <<>>]
Text(b) == [none |-> FALSE, raised |-> FALSE, blocks |-> b]
RaisedText == [none |-> TRUE, raised |-> TRUE, blocks |-> <<>>]

\* Faulty variant: "if pdf_text is not None:".
TruthyNotNone(t) == ~t.none

\* "if pdf_text:" is false for None and for the empty string.
Truthy(t) == ~t.none /\ t.blocks # <<>>

\* full_text += f"\n--- Page {i+1} ---\n{text}\n" for the pages with text.
RECURSIVE CorePageBlocks(_, _)
CorePageBlocks(pages, i) ==
    IF i > Len(pages) THEN <<>>
    ELSE (IF pages[i] # "" THEN <<[marker |-> i, text |-> pages[i]]>> ELSE <<>>)
         \o CorePageBlocks(pages, i + 1)

\* text += page_text + "\n": no marker.
RECURSIVE SimplePageBlocks(_, _)
SimplePageBlocks(pages, i) ==
    IF i > Len(pages) THEN <<>>
    ELSE (IF pages[i] # "" THEN <<[marker |-> 0, text |-> pages[i]]>> ELSE <<>>)
         \o SimplePageBlocks(pages, i + 1)

\* Faulty variant: the markers count the blocks, not the pages.
CoreExtractPdfTextRenumbers(avail, pdf_file, doc) ==
    IF ~avail THEN NoneText
    ELSE IF pdf_file.kind # "path" THEN NoneText
    ELSE IF ~doc.readable THEN NoneText
    ELSE LET b == CorePageBlocks(doc.pages, 1)
         IN  Text([k \in 1..Len(b) |-> [marker |-> k, text |-> b[k].text]])

\* Faulty variant: an unreadable document raises to the caller.
CoreExtractPdfTextRaises(avail, pdf_file, doc) ==
    IF ~avail THEN NoneText
    ELSE IF pdf_file.kind # "path" THEN NoneText
    ELSE IF ~doc.readable THEN RaisedText
    ELSE Text(CorePageBlocks(doc.pages, 1))

CoreExtractPdfText(avail, pdf_file, doc) ==
    IF ~avail THEN NoneText
    ELSE IF pdf_file.kind # "path" THEN NoneText
    ELSE IF ~doc.readable THEN NoneText
    ELSE Text(CorePageBlocks(doc.pages, 1))

\* find_pdf raises FileNotFoundError inside the try block: "" is returned.
SimpleExtractPdfText(avail, pdf_file, doc) ==
    IF ~avail THEN Text(<<>>)
    ELSE IF pdf_file.kind # "path" THEN Text(<<>>)
    ELSE IF ~doc.readable THEN Text(<<>>)
    ELSE Text(SimplePageBlocks(doc.pages, 1))

Placeholder == <<[marker |-> 0, text |-> "[PDF nicht verfuegbar - Problem manuell eingeben]"]>>

PromptsFolder == "prompts"

WriteFile(files, d, n, b) ==
    {f \in files : ~(f.dir = d /\ f.name = n)} \cup {[dir |-> d, name |-> n, body |-> b]}

FileExists(files, d, n) == \E f \in files : f.dir = d /\ f.name = n

\* Faulty variant: the prompt file is opened for appending, so what an
\* earlier call wrote stays in it.
CoreCreateAiPromptAppends(files, n, t) ==
    files \cup {[dir |-> PromptsFolder, name |-> PromptName(n),
                 body |-> [template |-> "core", level |-> n, description |-> t.blocks]]}

\* CCCCore.create_ai_prompt: the description section is the text as given.
CoreCreateAiPrompt(files, n, t) ==
    WriteFile(files, PromptsFolder, PromptName(n),
              [template |-> "core", level |-> n, description |-> t.blocks])

\* CCCSimple.create_ai_prompt: the placeholder stands in for an empty text.
SimpleCreateAiPrompt(files, n, t) ==
    WriteFile(files, Cwd, PromptName(n),
              [template |-> "simple", level |-> n,
               description |-> IF Truthy(t) THEN t.blocks ELSE Placeholder])

(***************************************************************************)
(* The entry points and their initial states.                              *)
(***************************************************************************)
EntryPoints ==
    {<<"runner", "auto">>, <<"runner", "interactive">>,
     <<"runner", "process_only">>, <<"runner", "template">>,
     <<"runlevel", "interactive">>, <<"runlevel", "auto">>,
     <<"process", "process_only">>, <<"process", "run_solution">>,
     <<"simple", "interactive">>, <<"simple", "auto">>, <<"simple", "template">>,
     <<"toprl", "interactive">>,
     <<"original", "run_solution">>}

\* The entry points built on CCCCore; toprl runs general/process_level.py
\* as its first step.
UsesCore == prog \in {"runner", "runlevel", "process", "toprl"}

OtherLevel(n) == CHOOSE m \in Levels : m # n

\* The level argument: the number, or a word that is not one.
BadArg == "abc"
Args(n) == {ToString(n), BadArg}

\* int(a) succeeds.
IsInteger(a) == a \in {ToString(n) : n \in Levels}

\* The archives a level can come with.
FullArchive(n) ==
    {Entry(Top, InFile(n, i)) : i \in 1..MaxInputs}
    \cup {Entry(Top, ExampleOutFile(n, 1)), Entry(Top, PlainOutFile(n, 1)),
          Entry(Sub, InFile(n, 1)), Entry(Top, CorePdfPatterns(n)[1])}

BareArchive(n) == {Entry(Top, InFile(n, 1)), Entry(Top, ReadmeFile)}

Archives(n) ==
    {[entries |-> a, corrupt |-> FALSE, partial |-> a] :
        a \in {FullArchive(n), BareArchive(n)}}
    \cup {[entries |-> FullArchive(n), corrupt |-> TRUE, partial |-> q] :
            q \in {{}, {Entry(Top, InFile(n, 1))}}}

\* What an earlier run that stopped at a failing solution leaves behind.
Leftovers(n) ==
    {[infos |-> {}, Inputs |-> {}, Outputs |-> {}, prompts |-> {}],
     [infos |-> {Entry(Top, InFile(OtherLevel(n), 1)), Entry(Top, TaskPdf)},
      Inputs |-> {InFile(OtherLevel(n), 1)},
      Outputs |-> {PlainOutFile(OtherLevel(n), 1)},
      prompts |-> {[dir |-> PromptsFolder, name |-> PromptName(n),
                    body |-> [template |-> "core", level |-> n,
                              description |-> <<[marker |-> 1, text |-> "A"]>>]]}]}

NoResult == <<>>
NoSnapshot == [infos |-> {}, Inputs |-> {}, Outputs |-> {}]
NoLog ==
    [clear |-> 0, extract |-> 0, pdf |-> 0, prompt |-> 0, organize |-> 0,
     child |-> 0, cleanup |-> 0, input |-> 0, wrote |-> {}]

Init ==
    /\ \E e \in EntryPoints : prog = e[1] /\ mode = e[2]
    /\ level \in Levels
    /\ arg \in Args(level)
    /\ pc = "start"
    /\ result = NoResult
    /\ PDF_AVAILABLE \in BOOLEAN
    /\ downloads \in SUBSET {ZipName(level)}
    /\ cwd \in SUBSET {ZipName(level), ScriptName(level), ArgZipName(arg)}
    /\ levelsDir \in SUBSET {ScriptName(level)}
    /\ \E l \in Leftovers(level) :
          /\ infos = l.infos
          /\ Inputs = l.Inputs
          /\ Outputs = l.Outputs
          /\ prompts = l.prompts
    /\ archive \in Archives(level)
    /\ zipPath = NonePath
    /\ pdfPath = NonePath
    /\ pdfDoc = NoDoc
    /\ pdfText = NoneText
    /\ counts = <<0, 0>>
    /\ exitCode = NoResult
    /\ pre = NoSnapshot
    /\ log = NoLog

Ran(stage) == [log EXCEPT ![stage] = @ + 1]

Return(code) == pc' = "done" /\ result' = <<code>>

env == <<prog, arg, level, PDF_AVAILABLE, downloads, levelsDir, archive>>

(***************************************************************************)
(* The processing pipeline.                                                *)
(***************************************************************************)
\* main(): the level argument is parsed by argparse (type=int, exit status
\* 2), by validate_level_number or by int() (exit status 1);
\* process_level_original.py takes it as typed.  CCCSimple has no clearing
\* stage.
Start ==
    /\ pc = "start"
    /\ IF prog = "original" THEN pc' = "clear" /\ UNCHANGED result
       ELSE IF ~IsInteger(arg)
            THEN Return(IF prog \in {"runner", "simple"} THEN 2 ELSE 1)
       ELSE /\ pc' = (IF UsesCore THEN "clear" ELSE "extract")
            /\ UNCHANGED result
    /\ UNCHANGED <<env, mode, cwd, infos, Inputs, Outputs, prompts,
                   zipPath, pdfPath, pdfDoc, pdfText, counts, exitCode, pre, log>>

ClearFolders ==
    /\ pc = "clear"
    /\ Inputs' = ClearFolder(Inputs)
    /\ Outputs' = ClearFolder(Outputs)
    /\ log' = Ran("clear")
    /\ pc' = "extract"
    /\ UNCHANGED <<env, mode, result, cwd, infos, prompts, zipPath, pdfPath, pdfDoc, pdfText,
                   counts, exitCode, pre>>

\* extract_zip: False (CCCCore) or an exception (CCCSimple) ends the run
\* with 1 in every entry point.  In process_level_original.py main() returns
\* None when its extract_zip finds no archive, so the exit status is 0, and
\* a found archive ends the run with an uncaught NameError (exit status 1):
\* the module never imports zipfile.
ExtractZip ==
    /\ pc = "extract"
    /\ LET p == IF UsesCore THEN CoreFindZip(downloads, cwd, level)
                ELSE IF prog = "original"
                     THEN OriginalFindZip(downloads, cwd, arg)
                ELSE SimpleFindZip(downloads, cwd, level)
       IN  /\ zipPath' = p
           /\ IF prog = "original"
              THEN /\ Return(IF p.kind = "path" THEN 1 ELSE 0)
                   /\ UNCHANGED <<infos, log>>
              ELSE IF p.kind # "path"
              THEN /\ Return(1)
                   /\ UNCHANGED <<infos, log>>
              ELSE LET x == ExtractArchive(infos, archive)
                   IN  /\ infos' = x.infos
                       /\ log' = Ran("extract")
                       /\ IF x.ok THEN pc' = "pdf" /\ UNCHANGED result
                          ELSE Return(1)
    /\ UNCHANGED <<env, mode, cwd, Inputs, Outputs, prompts, pdfPath, pdfDoc, pdfText, counts,
                   exitCode, pre>>

\* extract_pdf_text, then create_ai_prompt "if pdf_text:".
CoreProcessPdf ==
    /\ pc = "pdf"
    /\ UsesCore
    /\ \E doc \in Docs, f \in CoreFindPdf(downloads, infos, level) :
          LET t == CoreExtractPdfText(PDF_AVAILABLE, f, doc)
          IN  /\ pdfText' = t
              /\ pdfPath' = (IF PDF_AVAILABLE THEN f ELSE pdfPath)
              /\ pdfDoc' = (IF PDF_AVAILABLE /\ f.kind = "path" THEN doc ELSE pdfDoc)
              /\ IF t.raised
                 THEN /\ Return(1)
                      /\ log' = Ran("pdf")
                      /\ UNCHANGED prompts
                 ELSE /\ pc' = "organize"
                      /\ UNCHANGED result
                      /\ IF Truthy(t)
                         THEN /\ prompts' = CoreCreateAiPrompt(prompts, level, t)
                              /\ log' = [log EXCEPT !.pdf = @ + 1, !.prompt = @ + 1]
                         ELSE /\ UNCHANGED prompts
                              /\ log' = Ran("pdf")
    /\ UNCHANGED <<env, mode, cwd, infos, Inputs, Outputs, zipPath, counts,
                   exitCode, pre>>

\* CCCSimple: the prompt is written whatever the text, except in template
\* mode, which writes none.
SimpleProcessPdf ==
    /\ pc = "pdf"
    /\ prog = "simple"
    /\ \E doc \in Docs, f \in SimpleFindPdf(downloads, infos, level) :
          LET t == SimpleExtractPdfText(PDF_AVAILABLE, f, doc)
          IN  /\ pdfText' = t
              /\ pdfPath' = (IF PDF_AVAILABLE THEN f ELSE pdfPath)
              /\ pdfDoc' = (IF PDF_AVAILABLE /\ f.kind = "path" THEN doc ELSE pdfDoc)
              /\ IF mode = "template"
                 THEN /\ UNCHANGED prompts
                      /\ log' = Ran("pdf")
                 ELSE /\ prompts' = SimpleCreateAiPrompt(prompts, level, t)
                      /\ log' = [log EXCEPT !.pdf = @ + 1, !.prompt = @ + 1]
    /\ pc' = "organize"
    /\ UNCHANGED <<env, mode, result, cwd, infos, Inputs, Outputs, zipPath,
                   counts, exitCode, pre>>

WorkflowName(n) == <<"level", ToString(n), "_ai_workflow.md">>
SimpleWorkflowName(n) == <<"level", ToString(n), "_workflow.md">>
AiRequestName(n) == <<"level", ToString(n), "_ai_request.md">>
TempRequestName == <<"temp_ai_request", ".md">>

\* The file the entry point writes between classification and the pause.
GuideFile ==
    IF prog = "runner" /\ mode \in {"interactive", "process_only"}
        THEN {WorkflowName(level)}
    ELSE IF prog = "simple" /\ mode = "interactive" THEN {SimpleWorkflowName(level)}
    ELSE IF prog = "simple" /\ mode = "auto" THEN {AiRequestName(level)}
    ELSE {}

\* Where control goes when the processing pipeline has returned.
AfterOrganize ==
    IF prog = "runner" /\ mode = "process_only" THEN "done"
    ELSE IF prog \in {"runner", "simple"} /\ mode = "template" THEN "template"
    ELSE IF prog \in {"runner", "runlevel"} /\ mode = "auto" THEN "ai"
    ELSE IF prog = "process" /\ mode = "run_solution" THEN "solve"
    ELSE IF prog = "process" \/ prog = "toprl" THEN "cleanup"
    ELSE "pause"

Organize ==
    /\ pc = "organize"
    /\ pre' = [infos |-> infos, Inputs |-> Inputs, Outputs |-> Outputs]
    /\ LET st == [infos |-> infos, Inputs |-> Inputs, Outputs |-> Outputs,
                  counts |-> counts]
           r == IF UsesCore THEN CoreOrganize(st) ELSE SimpleOrganize(st)
       IN  /\ infos' = r.infos
           /\ Inputs' = r.Inputs
           /\ Outputs' = r.Outputs
           /\ counts' = r.counts
    /\ cwd' = cwd \cup GuideFile
    /\ log' = [log EXCEPT !.organize = @ + 1, !.wrote = @ \cup GuideFile]
    /\ pc' = AfterOrganize
    /\ result' = IF AfterOrganize = "done" THEN <<0>> ELSE result
    /\ UNCHANGED <<env, mode, prompts, zipPath, pdfPath, pdfDoc, pdfText, exitCode>>

(***************************************************************************)
(* AIAutomation.generate_solution and the template modes.                  *)
(***************************************************************************)
\* Faulty variant: while the prompt file is missing the generation is
\* started again.
AiReturnsFalseRetries(wd, lg) ==
    IF ~FileExists(prompts, PromptsFolder, PromptName(level))
    THEN /\ pc' = "ai"
         /\ cwd' = wd
         /\ log' = lg
         /\ UNCHANGED mode
    ELSE IF prog = "runner"
    THEN /\ pc' = "pause"
         /\ cwd' = wd \cup {WorkflowName(level)}
         /\ log' = [lg EXCEPT !.wrote = @ \cup {WorkflowName(level)}]
         /\ UNCHANGED mode
    ELSE /\ pc' = "clear"
         /\ mode' = "interactive"
         /\ cwd' = wd
         /\ log' = lg

\* generate_solution returned False: CCCRunner writes the workflow guide and
\* waits for the operator, archive/run_level.py calls run_level_interactive,
\* which starts with the processing pipeline.
AiReturnsFalse(wd, lg) ==
    IF prog = "runner"
    THEN /\ pc' = "pause"
         /\ cwd' = wd \cup {WorkflowName(level)}
         /\ log' = [lg EXCEPT !.wrote = @ \cup {WorkflowName(level)}]
         /\ UNCHANGED mode
    ELSE /\ pc' = "clear"
         /\ mode' = "interactive"
         /\ cwd' = wd
         /\ log' = lg

\* Faulty variant: the methods are tried although the prompt file is missing.
AiStartSkipsPromptCheck ==
    /\ pc = "ai"
    /\ pc' = "ai_vscode"
    /\ UNCHANGED <<env, mode, cwd, log, result, infos, Inputs, Outputs, prompts,
                   zipPath, pdfPath, pdfDoc, pdfText, counts, exitCode, pre>>

AiStart ==
    /\ pc = "ai"
    /\ IF FileExists(prompts, PromptsFolder, PromptName(level))
       THEN /\ pc' = "ai_vscode"
            /\ UNCHANGED <<mode, cwd, log>>
       ELSE AiReturnsFalse(cwd, log)
    /\ UNCHANGED <<env, result, infos, Inputs, Outputs, prompts, zipPath,
                   pdfPath, pdfDoc, pdfText, counts, exitCode, pre>>

\* _try_vscode_copilot_api: the request file is written, the operator is
\* waited for, and the method succeeds when the solution script exists.
AiVscode ==
    /\ pc = "ai_vscode"
    /\ \E create \in BOOLEAN :
          LET wd == IF create THEN cwd \cup {ScriptName(level)} ELSE cwd
          IN  IF CoreFindLevelScript(wd, levelsDir, level).kind = "path"
              THEN /\ cwd' = wd \ {TempRequestName}
                   /\ pc' = "solve"
              ELSE /\ cwd' = wd \cup {TempRequestName}
                   /\ pc' = "ai_cli"
    /\ log' = [log EXCEPT !.wrote = @ \cup {TempRequestName}, !.input = @ + 1]
    /\ UNCHANGED <<env, mode, result, infos, Inputs, Outputs, prompts, zipPath,
                   pdfPath, pdfDoc, pdfText, counts, exitCode, pre>>

\* _try_copilot_cli: gh is missing or fails, or its output is saved as the
\* solution script and compiled.
AiCli ==
    /\ pc = "ai_cli"
    /\ \E outcome \in {"unavailable", "valid", "syntax_error"} :
          IF outcome = "unavailable"
          THEN /\ pc' = "ai_direct"
               /\ UNCHANGED <<cwd, log>>
          ELSE /\ cwd' = cwd \cup {ScriptName(level)}
               /\ log' = [log EXCEPT !.wrote = @ \cup {ScriptName(level)}]
               /\ pc' = IF outcome = "valid" THEN "solve" ELSE "ai_direct"
    /\ UNCHANGED <<env, mode, result, infos, Inputs, Outputs, prompts, zipPath,
                   pdfPath, pdfDoc, pdfText, counts, exitCode, pre>>

\* _try_direct_ai_request: not implemented, False.
AiDirect ==
    /\ pc = "ai_direct"
    /\ pc' = "ai_template"
    /\ UNCHANGED <<env, mode, result, cwd, infos, Inputs, Outputs, prompts,
                   zipPath, pdfPath, pdfDoc, pdfText, counts, exitCode, pre, log>>

\* _try_template_generation as the last method: the template is written as
\* the solution script, or the write fails.
AiTemplate ==
    /\ pc = "ai_template"
    /\ \E ok \in BOOLEAN :
          IF ok
          THEN /\ cwd' = cwd \cup {ScriptName(level)}
               /\ log' = [log EXCEPT !.wrote = @ \cup {ScriptName(level)}]
               /\ pc' = "solve"
               /\ UNCHANGED mode
          ELSE AiReturnsFalse(cwd, log)
    /\ UNCHANGED <<env, result, infos, Inputs, Outputs, prompts, zipPath,
                   pdfPath, pdfDoc, pdfText, counts, exitCode, pre>>

\* run_template_generation / run_template_only: the template is written as
\* the solution script and the operator is asked whether to run it.
Template ==
    /\ pc = "template"
    /\ \E ok \in BOOLEAN, run \in BOOLEAN :
          IF ok
          THEN /\ cwd' = cwd \cup {ScriptName(level)}
               /\ log' = [log EXCEPT !.wrote = @ \cup {ScriptName(level)},
                                      !.input = @ + 1]
               /\ IF run
                  THEN pc' = "solve" /\ UNCHANGED result
                  ELSE Return(0)
          ELSE /\ Return(1)
               /\ UNCHANGED <<cwd, log>>
    /\ UNCHANGED <<env, mode, infos, Inputs, Outputs, prompts, zipPath,
                   pdfPath, pdfDoc, pdfText, counts, exitCode, pre>>

(***************************************************************************)
(* The pause, the solution and the cleanup.                                *)
(***************************************************************************)
\* input(): the operator may have written the solution script meanwhile.
Pause ==
    /\ pc = "pause"
    /\ \E create \in BOOLEAN :
          cwd' = IF create THEN cwd \cup {ScriptName(level)} ELSE cwd
    /\ pc' = "solve"
    /\ log' = Ran("input")
    /\ UNCHANGED <<env, mode, result, infos, Inputs, Outputs, prompts, zipPath,
                   pdfPath, pdfDoc, pdfText, counts, exitCode, pre>>

FindScript ==
    IF prog \in {"simple", "toprl"} THEN CwdFindLevelScript(cwd, level)
    ELSE CoreFindLevelScript(cwd, levelsDir, level)

\* The solution script is missing.
SolveMissing ==
    /\ pc = "solve"
    /\ FindScript.kind # "path"
    /\ IF prog = "process" THEN pc' = "cleanup" /\ UNCHANGED result
       ELSE IF prog = "simple" /\ mode = "template" THEN Return(0)
       ELSE Return(1)
    /\ UNCHANGED <<env, mode, cwd, infos, Inputs, Outputs, prompts, zipPath,
                   pdfPath, pdfDoc, pdfText, counts, exitCode, pre, log>>

\* What the solution may leave in Outputs/.
Produced == {{}, {PlainOutFile(level, 1)}}

\* The pipeline's result after a child that exited with ec # 0.
OnSolutionFailed(ec) ==
    IF prog = "process" THEN pc' = "cleanup" /\ UNCHANGED result
    ELSE IF prog = "simple" THEN Return(IF mode = "template" THEN 0 ELSE 1)
    ELSE Return(ec)

\* count_output_files: the *.out files of Outputs/.
CountOutputFiles(outputs) ==
    Cardinality({f \in outputs : GlobMatch(OutPattern, f)})

\* Faulty variant: a run that produced no output file is reported as failed.
OnSolutionSucceededChecksCount(output_count) ==
    IF output_count = 0 THEN Return(1)
    ELSE IF prog = "toprl" THEN Return(0)
    ELSE pc' = "cleanup" /\ UNCHANGED result

\* After a child that exited with 0: the count is logged, the cleanup
\* follows (the top-level run_level.py has none and returns 0).
OnSolutionSucceeded(output_count) ==
    IF prog = "toprl" THEN Return(0)
    ELSE pc' = "cleanup" /\ UNCHANGED result

\* subprocess.run of the solution script.
SolveRun ==
    /\ pc = "solve"
    /\ FindScript.kind = "path"
    /\ \E ec \in ExitCodes, out \in Produced :
          /\ exitCode' = <<ec>>
          /\ Outputs' = Outputs \cup out
          /\ IF ec = 0
             THEN OnSolutionSucceeded(CountOutputFiles(Outputs \cup out))
             ELSE OnSolutionFailed(ec)
    /\ log' = Ran("child")
    /\ UNCHANGED <<env, mode, cwd, infos, Inputs, prompts, zipPath, pdfPath, pdfDoc, pdfText,
                   counts, pre>>

\* cleanup_infos / cleanup.  In toprl it is the end of the child
\* general/process_level.py, which returned 0: the pause follows.
Cleanup ==
    /\ pc = "cleanup"
    /\ infos' = CleanupInfos(infos)
    /\ log' = Ran("cleanup")
    /\ IF prog = "toprl" THEN pc' = "pause" /\ UNCHANGED result
       ELSE Return(0)
    /\ UNCHANGED <<env, mode, cwd, Inputs, Outputs, prompts, zipPath, pdfPath, pdfDoc, pdfText,
                   counts, exitCode, pre>>

Next ==
    \/ Start
    \/ ClearFolders
    \/ ExtractZip
    \/ CoreProcessPdf
    \/ SimpleProcessPdf
    \/ Organize
    \/ AiStart
    \/ AiVscode
    \/ AiCli
    \/ AiDirect
    \/ AiTemplate
    \/ Template
    \/ Pause
    \/ SolveMissing
    \/ SolveRun
    \/ Cleanup

Spec == Init /\ [][Next]_vars

\* Every stage is straight-line code that blocks on input() and on
\* subprocess.run: an answered prompt and an exited child let it go on.
FairSpec == Spec /\ WF_vars(Next)

(***************************************************************************)
(* The classifier and the archive locator on their own: the stage is       *)
(* entered with every staging directory, respectively every placement of   *)
(* archives, and the stage's action is applied.                            *)
(***************************************************************************)
StagedUniverse(n) ==
    {Entry(Top, InFile(n, i)) : i \in 1..MaxInputs}
    \cup {Entry(Top, ExampleOutFile(n, 1)), Entry(Top, PlainOutFile(n, 1)),
          Entry(Top, ReadmeFile), Entry(Top, ExampleInFile),
          Entry(Top, BackupFile), Entry(Top, TaskPdf),
          Entry(Sub, InFile(n, 1))}

\* The state in which organize_files is entered: the archive was found in
\* ~/Downloads and extracted; CCCCore's pipelines have cleared Inputs/ and
\* Outputs/, CCCSimple's have not.
InitOrganize ==
    /\ \E e \in {<<"runner", "process_only">>, <<"simple", "interactive">>} :
          prog = e[1] /\ mode = e[2]
    /\ level \in Levels
    /\ arg = ToString(level)
    /\ pc = "organize"
    /\ result = NoResult
    /\ PDF_AVAILABLE = FALSE
    /\ downloads = {ZipName(level)}
    /\ cwd = {}
    /\ levelsDir = {}
    /\ infos \in SUBSET StagedUniverse(level)
    /\ Inputs \in (IF prog = "simple" THEN {{}, {InFile(level, 1)}} ELSE {{}})
    /\ Outputs = {}
    /\ prompts = (IF prog = "simple"
                  THEN SimpleCreateAiPrompt({}, level, Text(<<>>)) ELSE {})
    /\ archive = [entries |-> infos, corrupt |-> FALSE, partial |-> infos]
    /\ zipPath = FoundPath(Downloads, ZipName(level))
    /\ pdfPath = NonePath
    /\ pdfDoc = NoDoc
    /\ pdfText = (IF prog = "simple" THEN Text(<<>>) ELSE NoneText)
    /\ counts = <<0, 0>>
    /\ exitCode = NoResult
    /\ pre = NoSnapshot
    /\ log = [NoLog EXCEPT !.clear = IF prog = "simple" THEN 0 ELSE 1,
                           !.extract = 1, !.pdf = 1,
                           !.prompt = IF prog = "simple" THEN 1 ELSE 0]

SpecOrganize == InitOrganize /\ [][Organize]_vars

\* organize_files called once more, directly after it has returned.
Reorganize ==
    /\ pc # "organize"
    /\ log.organize = 1
    /\ pre' = [infos |-> infos, Inputs |-> Inputs, Outputs |-> Outputs]
    /\ LET st == [infos |-> infos, Inputs |-> Inputs, Outputs |-> Outputs,
                  counts |-> counts]
           r == IF UsesCore THEN CoreOrganize(st) ELSE SimpleOrganize(st)
       IN  /\ infos' = r.infos
           /\ Inputs' = r.Inputs
           /\ Outputs' = r.Outputs
           /\ counts' = r.counts
    /\ log' = Ran("organize")
    /\ UNCHANGED <<env, mode, pc, result, cwd, prompts, zipPath, pdfPath, pdfDoc, pdfText,
                   exitCode>>

SpecReorganize == InitOrganize /\ [][Organize \/ Reorganize]_vars

\* The state in which extract_zip is entered, with archives of any level
\* in either search location.
InitLocate ==
    /\ \E e \in {<<"runner", "interactive">>, <<"simple", "interactive">>} :
          prog = e[1] /\ mode = e[2]
    /\ level \in Levels
    /\ arg = ToString(level)
    /\ pc = "extract"
    /\ result = NoResult
    /\ PDF_AVAILABLE \in BOOLEAN
    /\ downloads \in SUBSET {ZipName(l) : l \in Levels}
    /\ cwd \in SUBSET {ZipName(l) : l \in Levels}
    /\ levelsDir = {}
    /\ infos = {}
    /\ Inputs = {}
    /\ Outputs = {}
    /\ prompts = {}
    /\ archive \in Archives(level)
    /\ zipPath = NonePath
    /\ pdfPath = NonePath
    /\ pdfDoc = NoDoc
    /\ pdfText = NoneText
    /\ counts = <<0, 0>>
    /\ exitCode = NoResult
    /\ pre = NoSnapshot
    /\ log = [NoLog EXCEPT !.clear = IF prog = "simple" THEN 0 ELSE 1]

SpecLocate == InitLocate /\ [][ExtractZip]_vars

\* The state in which extract_pdf_text is entered, with documents under
\* any of the candidate names in ~/Downloads and in infos/.
PdfUniverse(n) ==
    {CorePdfPatterns(n)[i] : i \in 1..Len(CorePdfPatterns(n))}

InitFindPdf ==
    /\ \E e \in {<<"runner", "process_only">>, <<"simple", "interactive">>} :
          prog = e[1] /\ mode = e[2]
    /\ level \in Levels
    /\ arg = ToString(level)
    /\ pc = "pdf"
    /\ result = NoResult
    /\ PDF_AVAILABLE = TRUE
    /\ downloads \in
          {{ZipName(level)} \cup d : d \in SUBSET PdfUniverse(level)}
    /\ cwd = {}
    /\ levelsDir = {}
    /\ infos \in
          SUBSET ({Entry(Top, q) : q \in PdfUniverse(level)}
                    \cup {Entry(Top, TaskPdf), Entry(Sub, TaskPdf),
                          Entry(Top, InFile(level, 1))})
    /\ Inputs = {}
    /\ Outputs = {}
    /\ prompts = {}
    /\ archive = [entries |-> infos, corrupt |-> FALSE, partial |-> infos]
    /\ zipPath = FoundPath(Downloads, ZipName(level))
    /\ pdfPath = NonePath
    /\ pdfDoc = NoDoc
    /\ pdfText = NoneText
    /\ counts = <<0, 0>>
    /\ exitCode = NoResult
    /\ pre = NoSnapshot
    /\ log = [NoLog EXCEPT !.clear = IF prog = "simple" THEN 0 ELSE 1,
                           !.extract = 1]

SpecFindPdf == InitFindPdf /\ [][CoreProcessPdf \/ SimpleProcessPdf]_vars

(***************************************************************************)
(* Properties.                                                             *)
(***************************************************************************)
EndsWith(name, suffix) == name # <<>> /\ name[Len(name)] = suffix

StagedInputs == {e \in pre.infos : e.dir = Top /\ EndsWith(e.name, ".in")}

\* C1: every file that is directly in infos/ with a name ending in .in when
\* organize_files starts is in Inputs/ under that name when it returns, and
\* is no longer in infos/ (CCCCore.organize_files and
\* CCCSimple.organize_files, every staging directory).
C1_MoveNotCopy ==
    log.organize > 0 =>
        \A e \in StagedInputs : e.name \in Inputs /\ e \notin infos

\* C1 witness: a classification that found at least two staged input files,
\* one of them already present in Inputs/ under the same name.
C1_Witness ==
    /\ log.organize > 0
    /\ prog = "simple"
    /\ Cardinality(StagedInputs) >= 2
    /\ NamesOf(StagedInputs) \cap pre.Inputs # {}

Scenario3 ==
    {Entry(Top, InFile(3, 1)), Entry(Top, ExampleOutFile(3, 1)),
     Entry(Top, InFile(3, 2))}

\* C2: CCCCore.organize_files returns (files moved into Inputs/, files
\* moved into Outputs/); from staging {level3_1.in, level3_1_example.out,
\* level3_2.in} with Inputs/ and Outputs/ empty the result is Inputs/ =
\* {level3_1.in, level3_2.in}, Outputs/ = {level3_1_example.out}, counts
\* (2, 1).
C2_OrganizeCounts ==
    (log.organize > 0 /\ UsesCore) =>
        /\ counts = <<Cardinality(Inputs \ pre.Inputs),
                      Cardinality(Outputs \ pre.Outputs)>>
        /\ Cardinality(pre.infos) - Cardinality(infos) = counts[1] + counts[2]
        /\ (pre.infos = Scenario3 /\ pre.Inputs = {} /\ pre.Outputs = {}) =>
              /\ Inputs = {InFile(3, 1), InFile(3, 2)}
              /\ Outputs = {ExampleOutFile(3, 1)}
              /\ counts = <<2, 1>>

\* C2 witness: the scenario has been classified.
C2_Witness ==
    /\ log.organize > 0
    /\ UsesCore
    /\ pre.infos = Scenario3
    /\ pre.Inputs = {}
    /\ pre.Outputs = {}
    /\ counts = <<2, 1>>

FolderOf(d) == IF d = Downloads THEN downloads ELSE cwd

\* C10: find_zip_file and find_zip return ~/Downloads/level<N>.zip when it
\* exists, else ./level<N>.zip when it exists, else not-found (None,
\* respectively FileNotFoundError); a returned path exists and is named for
\* level N.
C10_LocatorCorrect ==
    pc # "extract" =>
        /\ ZipName(level) \in downloads =>
              zipPath = FoundPath(Downloads, ZipName(level))
        /\ (ZipName(level) \notin downloads /\ ZipName(level) \in cwd) =>
              zipPath = FoundPath(Cwd, ZipName(level))
        /\ (ZipName(level) \notin downloads /\ ZipName(level) \notin cwd) =>
              zipPath = (IF UsesCore THEN NonePath ELSE FileNotFound)
        /\ zipPath.kind = "path" =>
              /\ zipPath.name \in FolderOf(zipPath.dir)
              /\ zipPath.name = ZipName(level)

\* C10 witness: the archive of level N was taken from the working directory
\* while ~/Downloads held the archive of another level only.
C10_Witness ==
    /\ pc # "extract"
    /\ zipPath = FoundPath(Cwd, ZipName(level))
    /\ downloads = {ZipName(OtherLevel(level))}

SolutionFailed == exitCode # NoResult /\ exitCode # <<0>>

\* C3: whenever the solution script exits with a nonzero code c, the value
\* handed to sys.exit is c (CCCRunner, archive/run_level.py, the top-level
\* run_level.py and the run modes of CCCSimple).
C3_ExitStatusPropagated ==
    (pc = "done" /\ SolutionFailed
        /\ prog \in {"runner", "runlevel", "toprl", "simple"}
        /\ mode \in {"auto", "interactive"}) =>
        result = exitCode

\* C4: once the solution script has exited nonzero, no cleanup of infos/
\* runs and infos/ keeps every file it held (CCCRunner, archive/run_level.py,
\* process_level with run_solution, CCCSimple).
C4_NoCleanupAfterFailure ==
    [][(SolutionFailed /\ prog \in {"runner", "runlevel", "process", "simple"}) =>
          (log'.cleanup = log.cleanup /\ infos \subseteq infos')]_vars

\* C5: when level<N>.py is in neither candidate location at the solution
\* stage, no child is started, the result is 1 and nothing is cleaned up:
\* infos/ and Inputs/ stay as classification left them (CCCRunner,
\* archive/run_level.py, process_level with run_solution).
C5_MissingScriptHardStop ==
    [][(pc = "solve" /\ FindScript.kind # "path"
          /\ prog \in {"runner", "runlevel", "process"}) =>
          (/\ pc' = "done"
           /\ result' = <<1>>
           /\ log' = log
           /\ infos' = infos
           /\ Inputs' = Inputs)]_vars

HasPlaceholderPrompt ==
    \E f \in prompts :
        /\ f.name = PromptName(level)
        /\ f.body.level = level
        /\ f.body.description = Placeholder

\* C6: whenever the document text is unavailable in a run, the processing
\* pipeline has written the prompt file of level N in that run, with the
\* placeholder as its description (the CCCCore pipelines and CCCSimple).
C6_DegradedPrompt ==
    (log.pdf > 0 /\ ~Truthy(pdfText)
        /\ (UsesCore \/ (prog = "simple" /\ mode # "template"))) =>
        (log.prompt > 0 /\ HasPlaceholderPrompt)

Extracted == log.extract > 0 /\ zipPath.kind = "path" /\ ~archive.corrupt

\* C7: extract_pdf_text never raises to its caller, and once the archive is
\* extracted the pipeline goes on to organize_files and reports success,
\* whatever the document stage found.
C7_DocumentNeverHalts ==
    /\ ~pdfText.raised
    /\ Extracted => (pc \in {"pdf", "organize"} \/ log.organize > 0)
    /\ (Extracted /\ pc = "done" /\ mode = "process_only") => result = <<0>>

\* C7 witness: pdfplumber is installed and a document lies in the staging
\* directory, yet no text came out of it, and the run was classified and
\* ended with 0.
C7_Witness ==
    /\ pc = "done"
    /\ result = <<0>>
    /\ UsesCore
    /\ PDF_AVAILABLE
    /\ pdfText.none
    /\ Glob(pre.infos, PdfPattern) # {}
    /\ log.organize > 0

ArchiveAbsent == ZipName(level) \notin downloads /\ ZipName(level) \notin cwd

C9_CorruptArchiveHalts ==
    (log.extract > 0 /\ archive.corrupt) =>
        /\ pc = "done"
        /\ result # NoResult
        /\ result # <<0>>
        /\ log.organize = 0
        /\ log.child = 0
        /\ pre = NoSnapshot
        /\ UsesCore => NamesOf(archive.entries) \cap (Inputs \cup Outputs) = {}

\* C9 witness: a corrupt archive was opened, part of it is on disk in
\* infos/, and the run has ended.
C9_Witness ==
    /\ log.extract > 0
    /\ archive.corrupt
    /\ archive.partial # {}
    /\ archive.partial \subseteq infos
    /\ pc = "done"

\* C11: organize_files run on an empty staging directory, and run a second
\* time directly after a first run, moves no file, leaves infos/, Inputs/
\* and Outputs/ as they are and returns the counts (0, 0).
C11_ClassifierIdempotent ==
    (log.organize = 2 \/ (log.organize = 1 /\ pre.infos = {})) =>
        /\ infos = pre.infos
        /\ Inputs = pre.Inputs
        /\ Outputs = pre.Outputs
        /\ UsesCore => counts = <<0, 0>>

\* C11 witness: the second run came after a first run that had moved
\* inputs and example outputs and had left other files in infos/.
C11_Witness ==
    /\ log.organize = 2
    /\ UsesCore
    /\ Cardinality(Inputs) = MaxInputs + 1
    /\ Outputs # {}
    /\ infos # {}

OutputPattern == IF UsesCore THEN ExampleOutPattern ELSE OutPattern

Unclassified(e) ==
    ~EndsWith(e.name, ".in") /\ ~GlobMatch(OutputPattern, e.name)

\* C12: organize_files leaves every staged file whose name neither ends in
\* .in nor matches the output pattern in infos/ under its name and moves it
\* neither to Inputs/ nor to Outputs/; such a file leaves infos/ only in
\* the cleanup.
C12_ClassifierFrame ==
    [][\A e \in infos :
          Unclassified(e) =>
              /\ e \notin infos' => pc = "cleanup"
              /\ pc = "organize" =>
                    /\ e \in infos'
                    /\ e.name \notin Inputs' \ Inputs
                    /\ e.name \notin Outputs' \ Outputs]_vars

\* C12 witness: after classification a plain output, the document and
\* the README are still in infos/ while inputs have been moved.
C12_Witness ==
    /\ log.organize > 0
    /\ UsesCore
    /\ Inputs # {}
    /\ \E e \in infos : e.dir = Top /\ EndsWith(e.name, ".out")
    /\ \E e \in infos : e.dir = Top /\ EndsWith(e.name, ".pdf")

\* C13: within one invocation no stage is executed twice: folder clearing,
\* archive extraction, document extraction, classification, the solution
\* and the cleanup each run at most once, in every mode.
C13_NoStageTwice ==
    /\ log.clear <= 1
    /\ log.extract <= 1
    /\ log.pdf <= 1
    /\ log.organize <= 1
    /\ log.child <= 1
    /\ log.cleanup <= 1

RunsSolution ==
    \/ mode \in {"auto", "interactive", "run_solution"}
    \/ mode = "template" /\ log.child > 0

\* C14: in every mode that runs the solution the result is 0 only if the
\* archive was extracted, the files were classified, the solution script
\* was found and exited 0 and the staging directory was cleaned up
\* (CCCRunner, process_level with run_solution, CCCSimple,
\* process_level_original.main).
C14_ZeroOnlyOnSuccess ==
    (pc = "done" /\ result = <<0>> /\ RunsSolution
        /\ prog \in {"runner", "process", "simple", "original"}) =>
        /\ Extracted
        /\ log.organize > 0
        /\ exitCode = <<0>>
        /\ log.cleanup > 0

\* C15: when the pipeline returns 0 after a solution that exited 0, nothing
\* is left under infos/, at any depth.
C15_StagingPurged ==
    (pc = "done" /\ result = <<0>> /\ exitCode = <<0>>) => infos = {}

\* C16: every run empties Inputs/ and Outputs/ before the archive is
\* extracted, so classification starts from empty folders (CCCRunner,
\* archive/run_level.py, process_level, CCCSimple).
C16_ClearedAtStart ==
    (prog \in {"runner", "runlevel", "process", "simple"}) =>
        /\ log.extract > 0 => log.clear > 0
        /\ log.organize > 0 => (pre.Inputs = {} /\ pre.Outputs = {})

\* C17: no operation of the system writes level<N>.py, in any mode.
C17_ScriptNeverWritten == ScriptName(level) \notin log.wrote

\* C18: at the solution stage of every entry point a script that exists in
\* the working directory or in levels/ is found and run.
C18_BothLocationsConsulted ==
    [][(pc = "solve"
          /\ (ScriptName(level) \in cwd \/ ScriptName(level) \in levelsDir)) =>
          log'.child = log.child + 1]_vars

PdfPatterns ==
    IF UsesCore THEN CorePdfPatterns(level) ELSE SimplePdfPatterns(level)

NamedIn(folder) == {i \in 1..Len(PdfPatterns) : PdfPatterns[i] \in folder}

TopNames(entries) == {e.name : e \in {x \in entries : x.dir = Top}}

\* C19: find_pdf_file returns the first candidate name that exists in
\* ~/Downloads; if there is none, the first that exists in infos/; if there
\* is none, a *.pdf file of infos/; and not-found exactly when none of
\* these exists.
C19_DocumentLookupOrder ==
    (pc = "organize" /\ log.pdf > 0 /\ PDF_AVAILABLE) =>
        LET dl == NamedIn(downloads)
            st == NamedIn(TopNames(infos))
        IN  /\ \A i \in dl :
                  (\A j \in dl : i <= j) =>
                      pdfPath = FoundPath(Downloads, PdfPatterns[i])
            /\ dl = {} =>
                  \A i \in st :
                      (\A j \in st : i <= j) =>
                          pdfPath = FoundPath(InfosFolder, PdfPatterns[i])
            /\ (dl = {} /\ st = {}) =>
                  /\ pdfPath.kind = "path" =>
                        /\ pdfPath.dir = InfosFolder
                        /\ pdfPath.name \in TopNames(infos)
                        /\ EndsWith(pdfPath.name, ".pdf")
                  /\ pdfPath = NonePath <=>
                        ~\E q \in TopNames(infos) : EndsWith(q, ".pdf")

\* C19 witness: the second candidate name was taken from infos/ although
\* another PDF lay beside it and a later candidate too.
C19_Witness ==
    /\ pc = "organize"
    /\ log.pdf > 0
    /\ UsesCore
    /\ NamedIn(downloads) = {}
    /\ pdfPath = FoundPath(InfosFolder, CorePdfPatterns(level)[2])
    /\ Entry(Top, TaskPdf) \in infos
    /\ Entry(Top, CorePdfPatterns(level)[4]) \in infos

\* C20: a level argument that is not an integer ends the program with a
\* nonzero exit status before any stage: nothing is cleared, searched,
\* extracted or moved.
C20_NonNumericLevelFatal ==
    ~IsInteger(arg) =>
        /\ pc \in {"start", "done"}
        /\ pc = "done" => (result # NoResult /\ result # <<0>>)
        /\ log = NoLog
        /\ zipPath = NonePath

\* C21: after a processing pipeline that extracted the archive, every file
\* of the archive whose name ends in .in, whatever its folder, is in Inputs/
\* and is no longer under infos/.
C21_EveryInputReachesInputs ==
    (Extracted /\ log.organize > 0
        /\ pc \notin {"clear", "extract", "pdf", "organize"}) =>
        \A e \in archive.entries :
            EndsWith(e.name, ".in") => (e.name \in Inputs /\ e \notin infos)

HasExampleMarker(name) == \E i \in 1..Len(name) : name[i] = "example"

C23_OutputCountInformational ==
    exitCode = <<0>> =>
        /\ pc \in {"cleanup", "done"}
        /\ pc = "done" => (result = <<0>> /\ log.cleanup > 0)

\* C23 witness: the run has returned 0 after its cleanup with inputs staged
\* and no .out file at all in Outputs/.
C23_Witness ==
    /\ exitCode = <<0>>
    /\ pc = "done"
    /\ result = <<0>>
    /\ prog = "runner"
    /\ log.cleanup = 1
    /\ Inputs # {}
    /\ CountOutputFiles(Outputs) = 0

\* Where control is when generate_solution has returned False.
GaveUp == IF prog = "runner" THEN "pause" ELSE "clear"

\* C24: generate_solution tries no method when the prompt file is missing
\* and returns False; otherwise it tries VS Code Copilot, Copilot CLI, the
\* direct request and template generation in this order, returns True at
\* the first that succeeds, and returns False only after the fourth failed.
C24_StrategyChain ==
    [][/\ pc = "ai" =>
            pc' = (IF FileExists(prompts, PromptsFolder, PromptName(level))
                   THEN "ai_vscode" ELSE GaveUp)
       /\ pc = "ai_vscode" => pc' \in {"solve", "ai_cli"}
       /\ pc = "ai_cli" => pc' \in {"solve", "ai_direct"}
       /\ pc = "ai_direct" => pc' \in {"solve", "ai_template"}
       /\ pc = "ai_template" => pc' \in {"solve", GaveUp}]_vars

\* C24 witness: the first three methods have failed and the fourth is
\* about to be tried.
C24_Witness ==
    /\ pc = "ai_template"
    /\ TempRequestName \in cwd
    /\ ScriptName(level) \in log.wrote

IsPromptFile(f) == f.dir = PromptsFolder /\ f.name = PromptName(level)

\* C25: a call of CCCCore.create_ai_prompt leaves exactly one file at
\* prompts/levelN_prompt.txt, whose content is given by the level and the
\* text alone, leaves every other file of prompts/ as it was, and calling
\* it again with the same text changes nothing.
C25_PromptIdempotent ==
    [][(UsesCore /\ log'.prompt = log.prompt + 1) =>
          /\ {f \in prompts' : IsPromptFile(f)} =
                {[dir |-> PromptsFolder, name |-> PromptName(level),
                  body |-> [template |-> "core", level |-> level,
                            description |-> pdfText'.blocks]]}
          /\ {f \in prompts' : ~IsPromptFile(f)} = {f \in prompts : ~IsPromptFile(f)}
          /\ CoreCreateAiPrompt(prompts', level, pdfText') = prompts']_vars

\* C25 witness: the prompt has been written twice in one invocation and an
\* earlier prompt with another text has been overwritten.
C25_Witness ==
    /\ UsesCore
    /\ log.prompt = 2
    /\ Cardinality(prompts) = 1
    /\ \A f \in prompts : IsPromptFile(f) /\ f.body.description = pdfText.blocks
    /\ pdfText.blocks # <<[marker |-> 1, text |-> "A"]>>

\* The document that extract_pdf_text opened in the last document stage.
DocumentOpened ==
    /\ UsesCore /\ pc = "organize" /\ log.pdf > 0
    /\ PDF_AVAILABLE /\ pdfPath.kind = "path" /\ pdfDoc.readable

\* C26: the text CCCCore.extract_pdf_text returns for a document it could
\* open has one block per page with text and none for a page without, the
\* blocks stand in page order, and each carries the text of its page under
\* a marker with that page's 1-based position in the document.
C26_PageConcatenation ==
    DocumentOpened =>
        LET pages == pdfDoc.pages
            b == pdfText.blocks
            WithText == {i \in 1..Len(pages) : pages[i] # ""}
        IN  /\ ~pdfText.none
            /\ Len(b) = Cardinality(WithText)
            /\ \A k \in 1..Len(b) :
                    /\ b[k].marker \in WithText
                    /\ b[k].text = pages[b[k].marker]
                    /\ \A j \in 1..(k - 1) : b[j].marker < b[k].marker

\* C26 witness: a document whose first page has no text and whose second
\* page has.
C26_Witness ==
    /\ DocumentOpened
    /\ Len(pdfDoc.pages) = 2
    /\ pdfDoc.pages[1] = "" /\ pdfDoc.pages[2] # ""
    /\ pdfText.blocks = <<[marker |-> 2, text |-> pdfDoc.pages[2]]>>

C28_EmptyExtractionIsAbsent ==
    [][(/\ pc = "pdf" /\ UsesCore /\ PDF_AVAILABLE
        /\ pdfPath'.kind = "path" /\ pdfDoc'.readable
        /\ \A i \in 1..Len(pdfDoc'.pages) : pdfDoc'.pages[i] = "") =>
          /\ pdfText' = Text(<<>>)
          /\ log'.prompt = log.prompt
          /\ prompts' = prompts
          /\ pc' = "organize"]_vars

\* C28 witness: a two-page document without text has been read, and the
\* prompt an earlier run left is still the one in prompts/.
C28_Witness ==
    /\ pc = "organize" /\ UsesCore /\ PDF_AVAILABLE
    /\ pdfPath.kind = "path" /\ pdfDoc.readable
    /\ pdfDoc.pages = <<"", "">>
    /\ pdfText = Text(<<>>)
    /\ log.pdf = 1 /\ log.prompt = 0
    /\ prompts # {}

\* C29: when the extraction stage of a run of CCCRunner has completed,
\* infos/ holds only files extracted from that run's archive.
C29_NoStaleStaging ==
    (prog = "runner" /\ Extracted /\ pc = "pdf") => infos \subseteq archive.entries

\* C30: in every mode of CCCRunner, archive/run_level.py and CCCSimple the
\* solution script is started at most once, only after the classification
\* of this invocation has moved the staged inputs into Inputs/, and never
\* when the extraction failed.
C30_SolutionAfterStaging ==
    prog \in {"runner", "runlevel", "simple"} =>
        /\ log.child <= 1
        /\ log.child > 0 =>
              /\ log.extract > 0 /\ zipPath.kind = "path" /\ ~archive.corrupt
              /\ log.organize > 0
              /\ pc \notin {"clear", "extract", "pdf", "organize"}
              /\ NamesOf(Glob(pre.infos, InPattern)) \subseteq Inputs

\* C30 witness: the solution has run once, on staged inputs, and failed.
C30_Witness ==
    /\ prog \in {"runner", "runlevel", "simple"}
    /\ log.child = 1 /\ log.organize > 0
    /\ NamesOf(Glob(pre.infos, InPattern)) # {}
    /\ NamesOf(Glob(pre.infos, InPattern)) \subseteq Inputs
    /\ exitCode = <<7>>

====
